---- MODULE Spec2Model ----
(***************************************************************************)
(* A model of the go-strato client (client.go): the login handshake, the   *)
(* resolution of the customer id, the reader and the writer of the DNS     *)
(* configuration form, the provider's server they talk to, and the        *)
(* commands list, add and remove of cmd/main.go.                           *)
(*                                                                         *)
(* Strings are sequences of symbols.  A symbol is one character ("&", "=", *)
(* "+", "%", "a", ...) or a word without any separator character           *)
(* ("sessionID", "cID", "TXT", ...), which the string operations treat as  *)
(* a unit.  strings.Split, strings.HasPrefix, url.Parse and the form      *)
(* decoding are computed on these sequences as the Go code computes them   *)
(* on bytes.                                                               *)
(***************************************************************************)
EXTENDS Integers, Sequences, FiniteSets, TLC

VARIABLES
    pc,      \* "start": before NewStratoClient; "authenticated": inside it, after authenticate;
             \* "ready": the client is in use; "failed": an operation returned an error
    client,  \* the StratoClient struct (NilClient when none was returned)
    page,    \* the provider's current document of the TXT-records view
    last,    \* the last public operation: its name, argument, server answers and results
    reqs,    \* the HTTP requests the last public operation sent, in order
    again,   \* history: the last operation is a successful read that directly followed
             \* a successful read on the same client
    main     \* cmd/main.go: the command, the provided record, the configuration it
             \* fetched first and the point the program has reached

vars == <<pc, client, page, last, reqs, again, main>>

----------------------------------------------------------------------------
(* Bounds *)

\* longest Records sequence passed to SetDNSConfiguration
MaxRecords == 2
\* largest number of record template rows in a page the server starts with
MaxRows == 2

----------------------------------------------------------------------------
(* Values *)

\* Go's nil error
Nil == "nil"
\* the result of a htmlquery.FindOne: no node, or the node's text
None == <<>>
Some(v) == <<v>>
\* a control byte (below 0x20), here the line feed %0A decodes to
CTL == "\\n"
\* a byte that is none of the symbols named in this module
OtherByte == "\\x"
\* the empty string
Empty == <<>>

\* all sequences over S of length at most n
SeqsUpTo(S, n) == UNION {[1..k -> S] : k \in 0..n}

Range(s) == {s[i] : i \in 1..Len(s)}

\* s from index i on
From(s, i) == SubSeq(s, i, Len(s))

\* the index of the first occurrence of symbol ch in s, 0 when there is none
RECURSIVE IndexFrom(_, _, _)
IndexFrom(s, ch, i) ==
    IF i > Len(s) THEN 0 ELSE IF s[i] = ch THEN i ELSE IndexFrom(s, ch, i + 1)

IndexOf(s, ch) == IndexFrom(s, ch, 1)

\* strings.HasPrefix
HasPrefix(s, p) == Len(s) >= Len(p) /\ SubSeq(s, 1, Len(p)) = p

\* strings.TrimPrefix
TrimPrefix(s, p) == IF HasPrefix(s, p) THEN From(s, Len(p) + 1) ELSE s

\* strings.Split(s, sep) for a one-symbol separator: always at least one part
RECURSIVE Split(_, _)
Split(s, sep) ==
    LET i == IndexOf(s, sep) IN
    IF i = 0 THEN <<s>>
    ELSE <<SubSeq(s, 1, i - 1)>> \o Split(From(s, i + 1), sep)

\* strings.Join(parts, sep)
RECURSIVE Join(_, _)
Join(parts, sep) ==
    IF Len(parts) = 0 THEN Empty
    ELSE IF Len(parts) = 1 THEN parts[1]
    ELSE parts[1] \o sep \o Join(Tail(parts), sep)

\* strings.Cut(s, sep): the text before and after the first sep
CutBefore(s, sep) == IF IndexOf(s, sep) = 0 THEN s ELSE SubSeq(s, 1, IndexOf(s, sep) - 1)
CutAfter(s, sep) == IF IndexOf(s, sep) = 0 THEN Empty ELSE From(s, IndexOf(s, sep) + 1)

----------------------------------------------------------------------------
(* net/url as the client uses it *)

HexDigits == {"0", "1", "2", "3", "4", "5", "6", "7", "8", "9",
              "A", "B", "C", "D", "E", "F", "a", "b", "c", "d", "e", "f"}

\* the byte a %XX escape stands for
HexByte(h1, h2) ==
    CASE <<h1, h2>> = <<"2", "6">> -> "&"
      [] <<h1, h2>> = <<"2", "B">> -> "+"
      [] <<h1, h2>> = <<"3", "D">> -> "="
      [] <<h1, h2>> = <<"2", "5">> -> "%"
      [] <<h1, h2>> = <<"2", "0">> -> " "
      [] <<h1, h2>> = <<"0", "A">> -> CTL
      [] OTHER -> OtherByte

\* url.QueryUnescape: "+" is a space, %XX a byte, a "%" without two hex digits an error
RECURSIVE QueryUnescape(_)
QueryUnescape(s) ==
    IF s = Empty THEN [ok |-> TRUE, val |-> Empty]
    ELSE IF Head(s) = "%" THEN
        IF Len(s) >= 3 /\ s[2] \in HexDigits /\ s[3] \in HexDigits
        THEN LET r == QueryUnescape(From(s, 4)) IN
             [ok |-> r.ok, val |-> IF r.ok THEN <<HexByte(s[2], s[3])>> \o r.val ELSE Empty]
        ELSE [ok |-> FALSE, val |-> Empty]
    ELSE LET r == QueryUnescape(Tail(s)) IN
         [ok |-> r.ok,
          val |-> IF r.ok THEN <<IF Head(s) = "+" THEN " " ELSE Head(s)>> \o r.val ELSE Empty]

\* url.ParseQuery, errors dropped as URL.Query() drops them: the key/value pairs in
\* order, without the empty segments, the segments holding ";" and those with a bad escape
RECURSIVE QueryPairs(_)
QueryPairs(segs) ==
    IF segs = <<>> THEN <<>>
    ELSE LET seg == Head(segs)
             k == QueryUnescape(CutBefore(seg, "="))
             v == QueryUnescape(CutAfter(seg, "="))
         IN  IF seg = Empty \/ ";" \in Range(seg) \/ ~k.ok \/ ~v.ok
             THEN QueryPairs(Tail(segs))
             ELSE <<[key |-> k.val, val |-> v.val]>> \o QueryPairs(Tail(segs))

ParseQuery(q) == QueryPairs(Split(q, "&"))

\* url.Values.Get: the first value of the key, "" when the key is absent
RECURSIVE ValuesGet(_, _)
ValuesGet(pairs, key) ==
    IF pairs = <<>> THEN Empty
    ELSE IF Head(pairs).key = key THEN Head(pairs).val
    ELSE ValuesGet(Tail(pairs), key)

\* url.Parse: a control byte is an error; the fragment is cut at the first "#",
\* RawQuery is what follows the first "?"
UrlParse(u) ==
    [ok |-> CTL \notin Range(u),
     RawQuery |-> CutAfter(CutBefore(u, "#"), "?")]

\* http.NewRequest fails when url.Parse fails on the request URL
NewRequestOK(u) == UrlParse(u).ok

----------------------------------------------------------------------------
(* The client *)

StatusFound == 302
StatusOK == 200

\* the words of the wire protocol, as strings
W(word) == <<word>>

Req(method, url, body) == [method |-> method, url |-> url, body |-> body]

\* the error a failed session.Do or a failed read of the body returns
TransportError == "transport error"
\* the error url.Parse returns
UrlError == "invalid URL"

\* a session without CheckRedirect: redirects are followed
FollowRedirects == FALSE

\* the session's CheckRedirect returns http.ErrUseLastResponse
ErrUseLastResponse == TRUE

\* session.Do(req) when the server answers r without a transport error: the
\* response handed to the caller and the requests sent.  A redirect is handed over
\* as it is; a client that followed it would send a GET to its Location and hand
\* over the answer to that, the page the server shows after the operation.
Do(req, r) ==
    IF r.status = StatusFound /\ ~ErrUseLastResponse
    THEN [r |-> [r EXCEPT !.status = StatusOK], reqs |-> <<req, Req("GET", W("Location"), Empty)>>]
    ELSE [r |-> r, reqs |-> <<req>>]

\* the struct as NewStratoClient builds it before authenticating
NewStruct(api, identifier, password, order, domain) ==
    [api |-> api, identifier |-> identifier, password |-> password,
     order |-> order, domain |-> domain, cID |-> Empty, sessionID |-> Empty]

\* the body of the login POST
LoginBody(c) ==
    Join(<<W("identifier") \o W("=") \o c.identifier,
           W("passwd") \o W("=") \o c.password,
           W("action_customer_login.x") \o W("=") \o W("Login")>>, W("&"))

\* the status branch of authenticate on the login POST's response x
AuthClassify(c, x) ==
    IF x.status = StatusFound THEN
        LET parsedURL == UrlParse(x.location)
            sid == ValuesGet(ParseQuery(parsedURL.RawQuery), W("sessionID"))
        IN  IF ~parsedURL.ok THEN [err |-> UrlError, c |-> c]
            ELSE IF sid = Empty
            THEN [err |-> "sessionID not found in redirect URL", c |-> [c EXCEPT !.sessionID = sid]]
            ELSE [err |-> Nil, c |-> [c EXCEPT !.sessionID = sid]]
    ELSE IF x.status = StatusOK THEN [err |-> "authentication failed", c |-> c]
    ELSE [err |-> "unexpected response status", c |-> c]

\* an authenticate that falls back to the login POST when the preliminary GET failed
authenticateFallback(c, x) ==
    LET get == Req("GET", c.api, Empty)
        post == Req("POST", c.api, LoginBody(c))
    IN  IF ~NewRequestOK(c.api) THEN [err |-> UrlError, c |-> c, reqs |-> <<>>]
        ELSE IF x.getErr THEN [err |-> TransportError, c |-> c, reqs |-> <<get, post>>]
        ELSE IF x.postErr THEN [err |-> TransportError, c |-> c, reqs |-> <<get, post>>]
        ELSE LET resp == Do(post, x)
                 r == AuthClassify(c, resp.r)
             IN  [err |-> r.err, c |-> r.c, reqs |-> <<get>> \o resp.reqs]

\* authenticate: the preliminary GET, the login POST, the classification.
\* x is what the server answers: x.getErr / x.postErr a transport error of the
\* GET / the POST, x.status and x.location the POST's response.
authenticate(c, x) ==
    LET get == Req("GET", c.api, Empty)
        post == Req("POST", c.api, LoginBody(c))
    IN  IF ~NewRequestOK(c.api) THEN [err |-> UrlError, c |-> c, reqs |-> <<>>]
        ELSE IF x.getErr THEN [err |-> TransportError, c |-> c, reqs |-> <<get>>]
        ELSE IF x.postErr THEN [err |-> TransportError, c |-> c, reqs |-> <<get, post>>]
        ELSE LET resp == Do(post, x)
                 r == AuthClassify(c, resp.r)
             IN  [err |-> r.err, c |-> r.c, reqs |-> <<get>> \o resp.reqs]

\* htmlquery.FindOne(doc, "//div[@data-pkg-name-order='" + order + "']"): the index
\* of the first such div of the dashboard, 0 when there is none
FindOrderDiv(doc, order) ==
    IF \E i \in 1..Len(doc) : doc[i].order = order
    THEN CHOOSE i \in 1..Len(doc) :
            doc[i].order = order /\ \A j \in 1..(i - 1) : doc[j].order # order
    ELSE 0

\* the loop without its break: the last part with the prefix "cID=" wins
RECURSIVE ExtractLastCID(_, _)
ExtractLastCID(parts, cID) ==
    IF parts = <<>> THEN cID
    ELSE IF HasPrefix(Head(parts), W("cID") \o W("="))
         THEN ExtractLastCID(Tail(parts), TrimPrefix(Head(parts), W("cID") \o W("=")))
         ELSE ExtractLastCID(Tail(parts), cID)

\* the loop over strings.Split(link, "&"): the first part with the prefix "cID="
\* sets cID to the rest of the part and ends the loop; cID keeps its value otherwise
RECURSIVE ExtractCID(_, _)
ExtractCID(parts, cID) ==
    IF parts = <<>> THEN cID
    ELSE IF HasPrefix(Head(parts), W("cID") \o W("="))
         THEN TrimPrefix(Head(parts), W("cID") \o W("="))
         ELSE ExtractCID(Tail(parts), cID)

\* populatePackageID from the parsed dashboard on
ResolveFromDoc(c, doc) ==
    LET div == FindOrderDiv(doc, c.order) IN
    IF div = 0 THEN [err |-> "failed to find order", c |-> c]
    ELSE IF doc[div].links = <<>> THEN [err |-> "failed to find link", c |-> c]
    ELSE LET link == doc[div].links[1] IN
         IF link = Empty THEN [err |-> "failed to find link value", c |-> c]
         ELSE LET cID == ExtractCID(Split(link, "&"), c.cID) IN
              IF cID = Empty
              THEN [err |-> "failed to find cID in link", c |-> [c EXCEPT !.cID = cID]]
              ELSE [err |-> Nil, c |-> [c EXCEPT !.cID = cID]]

\* what populatePackageID returns when http.NewRequest or session.Do fails
DashRequestFailed(err) == Nil

\* populatePackageID: the dashboard GET with cID=0, then the extraction.
\* d is the server's answer: d.err a transport error, d.bodyOK whether the body
\* could be read and parsed, d.doc the divs of the page.
populatePackageID(c, d) ==
    LET getURL == c.api \o W("?") \o W("sessionID") \o W("=") \o c.sessionID
                        \o W("&") \o W("cID") \o W("=") \o W("0")
                        \o W("&") \o W("node") \o W("=") \o W("kds_CustomerEntryPage")
        get == Req("GET", getURL, Empty)
    IN  IF ~NewRequestOK(getURL) THEN [err |-> DashRequestFailed(UrlError), c |-> c, reqs |-> <<>>]
        ELSE IF d.err THEN [err |-> DashRequestFailed(TransportError), c |-> c, reqs |-> <<get>>]
        ELSE IF ~d.bodyOK THEN [err |-> TransportError, c |-> c, reqs |-> <<get>>]
        ELSE LET r == ResolveFromDoc(c, d.doc) IN
             [err |-> r.err, c |-> r.c, reqs |-> <<get>>]

\* a *StratoClient: the nil pointer, or a pointer to a struct
NilClient == <<>>
Ptr(c) == <<c>>

----------------------------------------------------------------------------
(* The reader *)

\* DNSConfig{}
ZeroConfig == [DMARCType |-> Empty, SPFType |-> Empty, Records |-> <<>>]

\* the lookup without the @checked test: the first input of the name
FindNamed(inputs, name) ==
    IF \E i \in 1..Len(inputs) : inputs[i].name = name
    THEN CHOOSE i \in 1..Len(inputs) :
            inputs[i].name = name /\ \A j \in 1..(i - 1) : inputs[j].name # name
    ELSE 0

\* htmlquery.FindOne(form, "//input[@name='<name>' and @checked]"): the index of
\* the first such input of the form, 0 when there is none
FindChecked(inputs, name) ==
    IF \E i \in 1..Len(inputs) : inputs[i].name = name /\ inputs[i].checked
    THEN CHOOSE i \in 1..Len(inputs) :
            /\ inputs[i].name = name /\ inputs[i].checked
            /\ \A j \in 1..(i - 1) : ~(inputs[j].name = name /\ inputs[j].checked)
    ELSE 0

\* htmlquery.SelectAttr(node, "value") / htmlquery.InnerText(node): "" for a nil node
TextOf(node) == IF node = None THEN Empty ELSE node[1]

\* the loop with a row's prefix input required as well
RECURSIVE ParseRowsStrict(_)
ParseRowsStrict(rows) ==
    IF rows = <<>> THEN <<>>
    ELSE LET row == Head(rows) IN
         IF row.type # None /\ row.value # None /\ row.prefix # None
         THEN <<[Type |-> TextOf(row.type), Prefix |-> TextOf(row.prefix),
                 Value |-> TextOf(row.value)]>> \o ParseRowsStrict(Tail(rows))
         ELSE ParseRowsStrict(Tail(rows))

\* the loop over the record template rows: a row gives a record when its selected
\* type option and its value textarea are both found
RECURSIVE ParseRows(_)
ParseRows(rows) ==
    IF rows = <<>> THEN <<>>
    ELSE LET row == Head(rows) IN
         IF row.type # None /\ row.value # None
         THEN <<[Type |-> TextOf(row.type), Prefix |-> TextOf(row.prefix),
                 Value |-> TextOf(row.value)]>> \o ParseRows(Tail(rows))
         ELSE ParseRows(Tail(rows))

\* GetDNSConfiguration from the parsed document on
ParseForm(doc) ==
    LET dmarcNode == FindChecked(doc.inputs, "dmarc_type")
        spfNode == FindChecked(doc.inputs, "spf_type")
        fail(e) == [config |-> ZeroConfig, err |-> e]
    IN  IF ~doc.form THEN fail("failed to find form element")
        ELSE IF dmarcNode = 0 THEN fail("failed to find dmarc_type element")
        ELSE IF doc.inputs[dmarcNode].value = Empty THEN fail("failed to find dmarc_type value")
        ELSE IF spfNode = 0 THEN fail("failed to find spf_type element")
        ELSE IF doc.inputs[spfNode].value = Empty THEN fail("failed to find spf_type value")
        ELSE [config |-> [DMARCType |-> doc.inputs[dmarcNode].value,
                          SPFType |-> doc.inputs[spfNode].value,
                          Records |-> ParseRows(doc.rows)],
              err |-> Nil]

GetURL(c) ==
    c.api \o W("?") \o W("sessionID") \o W("=") \o c.sessionID
          \o W("&") \o W("cID") \o W("=") \o c.cID
          \o W("&") \o W("node") \o W("=") \o W("ManageDomains")
          \o W("&") \o W("action_show_txt_records")
          \o W("&") \o W("vhost") \o W("=") \o c.domain

\* GetDNSConfiguration; r is the server's answer: r.err a transport error, r.status,
\* r.bodyOK whether the body could be read and parsed, r.doc the parsed document
GetDNSConfiguration(c, r) ==
    LET get == Req("GET", GetURL(c), Empty) IN
    IF ~NewRequestOK(GetURL(c)) THEN [config |-> ZeroConfig, err |-> UrlError, reqs |-> <<>>]
    ELSE IF r.err THEN [config |-> ZeroConfig, err |-> TransportError, reqs |-> <<get>>]
    ELSE LET resp == Do(get, r) IN
         IF resp.r.status # StatusOK
         THEN [config |-> ZeroConfig, err |-> "failed to fetch TXT records", reqs |-> resp.reqs]
         ELSE IF ~resp.r.bodyOK
         THEN [config |-> ZeroConfig, err |-> TransportError, reqs |-> resp.reqs]
         ELSE LET f == ParseForm(resp.r.doc) IN
              [config |-> f.config, err |-> f.err, reqs |-> resp.reqs]

----------------------------------------------------------------------------
(* The writer *)

\* the fields of the records with each record put before the earlier ones
RECURSIVE RecordFieldsReversed(_)
RecordFieldsReversed(records) ==
    IF records = <<>> THEN <<>>
    ELSE RecordFieldsReversed(Tail(records))
         \o <<W("type") \o W("=") \o Head(records).Type,
               W("prefix") \o W("=") \o Head(records).Prefix,
               W("value") \o W("=") \o Head(records).Value>>

\* the three fields appended for each record
RECURSIVE RecordFields(_)
RecordFields(records) ==
    IF records = <<>> THEN <<>>
    ELSE <<W("type") \o W("=") \o Head(records).Type,
           W("prefix") \o W("=") \o Head(records).Prefix,
           W("value") \o W("=") \o Head(records).Value>> \o RecordFields(Tail(records))

\* the cID form field carrying the resolved customer id
FormResolvedCID(c) == c.cID

\* the value of the cID form field
FormCID(c) == W("1")

\* the form slice of SetDNSConfiguration (the button caption is "Einstellung
\* uebernehmen" with a u-umlaut)
FormFields(c, config) ==
    <<W("sessionID") \o W("=") \o c.sessionID,
      W("cID") \o W("=") \o FormCID(c),
      W("node") \o W("=") \o W("ManageDomains"),
      W("vhost") \o W("=") \o c.domain,
      W("dmarc_type") \o W("=") \o config.DMARCType,
      W("spf_type") \o W("=") \o config.SPFType>>
    \o RecordFields(config.Records)
    \o <<W("action_change_txt_records") \o W("=") \o W("Einstellung") \o W(" ") \o W("uebernehmen")>>

SetURL(c) ==
    c.api \o W("?") \o W("sessionID") \o W("=") \o c.sessionID
          \o W("&") \o W("cID") \o W("=") \o c.cID
          \o W("&") \o W("action_change_txt_records")

\* the status branch with the 200 read as a success too
SetClassifyLoose(r) ==
    IF r.status \in {StatusFound, StatusOK} THEN Nil
    ELSE "unexpected response status"

\* the status branch of SetDNSConfiguration
SetClassify(r) ==
    IF r.status = StatusFound THEN Nil
    ELSE IF r.status = StatusOK THEN "update failed"
    ELSE "unexpected response status"

\* SetDNSConfiguration sending its POST a second time when the first is not
\* answered by a redirect
SetDNSConfigurationRetry(c, config, r) ==
    LET post == Req("POST", SetURL(c), Join(FormFields(c, config), W("&"))) IN
    IF ~NewRequestOK(SetURL(c)) THEN [err |-> UrlError, reqs |-> <<>>]
    ELSE IF r.err THEN [err |-> TransportError, reqs |-> <<post, post>>]
    ELSE IF r.status # StatusFound THEN [err |-> SetClassify(r), reqs |-> <<post, post>>]
    ELSE [err |-> SetClassify(r), reqs |-> <<post>>]

\* SetDNSConfiguration; r is the server's answer
SetDNSConfiguration(c, config, r) ==
    LET post == Req("POST", SetURL(c), Join(FormFields(c, config), W("&"))) IN
    IF ~NewRequestOK(SetURL(c)) THEN [err |-> UrlError, reqs |-> <<>>]
    ELSE IF r.err THEN [err |-> TransportError, reqs |-> <<post>>]
    ELSE LET resp == Do(post, r) IN [err |-> SetClassify(resp.r), reqs |-> resp.reqs]

----------------------------------------------------------------------------
(* The provider's server: it decodes the posted body as the declared content  *)
(* type application/x-www-form-urlencoded, stores the fields and renders them *)
(* in the form the reader scrapes                                             *)

\* the values of the fields named key, in the order of the body
RECURSIVE AllValues(_, _)
AllValues(pairs, key) ==
    IF pairs = <<>> THEN <<>>
    ELSE IF Head(pairs).key = key THEN <<Head(pairs).val>> \o AllValues(Tail(pairs), key)
    ELSE AllValues(Tail(pairs), key)

\* the i-th of the values, "" when there are fewer
Nth(vals, i) == IF i <= Len(vals) THEN vals[i] ELSE Empty

\* the document the server renders from a decoded body: a radio group per policy
\* with the stored option checked, and one row per repetition of the type field,
\* the repeated fields associated by position
Render(pairs) ==
    LET types == AllValues(pairs, W("type"))
        prefixes == AllValues(pairs, W("prefix"))
        values == AllValues(pairs, W("value"))
    IN  [form |-> TRUE,
         inputs |-> <<[name |-> "dmarc_type", checked |-> FALSE, value |-> W("unset")],
                      [name |-> "dmarc_type", checked |-> TRUE,
                       value |-> ValuesGet(pairs, W("dmarc_type"))],
                      [name |-> "spf_type", checked |-> TRUE,
                       value |-> ValuesGet(pairs, W("spf_type"))]>>,
         rows |-> [i \in 1..Len(types) |->
                     [type |-> Some(types[i]), prefix |-> Some(Nth(prefixes, i)),
                      value |-> Some(Nth(values, i))]]]

\* the page after the server accepted the body
ServerApply(body) == Render(ParseQuery(body))

----------------------------------------------------------------------------
(* Inputs *)

Apis == {W("https://host/cs"), W("https://host/") \o W(CTL)}
Identifier == W("user")
Password == W("secret")
Order == "ORDER1"
Domain == W("example.org")

\* Location headers of the login redirect
LocExample == <<"/", "x", "?", "sessionID", "=", "abc123", "&", "foo", "=", "bar">>
LocNoSession == <<"/", "x", "?", "foo", "=", "bar">>
LocEmptySession == <<"/", "x", "?", "sessionID", "=", "&", "foo", "=", "bar">>
LocEscaped == <<"/", "x", "?", "sessionID", "=", "a", "%", "2", "6", "b">>
LocLineFeed == <<"/", "x", "?", "sessionID", "=", "a", "%", "0", "A">>
LocControl == <<"/", "x", CTL, "?", "sessionID", "=", "S1">>
LocSecond == <<"/", "x", "?", "sessionID", "=", "%", "z", "&", "sessionID", "=", "abc123", "#", "f">>
LocFragment == <<"/", "x", "#", "?", "sessionID", "=", "S1">>
Locations == {LocExample, LocNoSession, LocEmptySession, LocEscaped, LocLineFeed,
              LocControl, LocSecond, LocFragment}

\* what the server answers to the two requests of the login
LoginAnswers ==
    {[getErr |-> TRUE, postErr |-> FALSE, status |-> 0, location |-> Empty],
     [getErr |-> FALSE, postErr |-> TRUE, status |-> 0, location |-> Empty]}
    \cup {[getErr |-> FALSE, postErr |-> FALSE, status |-> StatusFound, location |-> l] :
            l \in Locations}
    \cup {[getErr |-> FALSE, postErr |-> FALSE, status |-> st, location |-> Empty] :
            st \in {StatusOK, 500}}
NoLogin == [getErr |-> FALSE, postErr |-> FALSE, status |-> 0, location |-> Empty]

\* dashboards: the divs carrying an order label, each with the hrefs of its links
HrefExample == <<"https://host/cs", "?", "sessionID", "=", "S", "&", "cID", "=", "987", "&", "node", "=", "n">>
HrefLast == <<"https://host/cs", "?", "node", "=", "n", "&", "cID", "=", "42">>
HrefOther == <<"https://host/cs", "?", "node", "=", "n", "&", "cID", "=", "43">>
HrefNoCID == <<"https://host/cs", "?", "node", "=", "n", "&", "vhost", "=", "d">>
HrefFirstSegment == <<"https://host/cs", "?", "cID", "=", "5">>
HrefEmptyCID == <<"https://host/cs", "?", "node", "=", "n", "&", "cID", "=", "&", "cID", "=", "6">>
Dashboards ==
    {<<[order |-> Order, links |-> <<HrefExample>>]>>,
     <<[order |-> "ORDER2", links |-> <<HrefOther>>],
       [order |-> Order, links |-> <<HrefLast, HrefOther>>],
       [order |-> Order, links |-> <<HrefExample>>]>>,
     <<[order |-> "ORDER2", links |-> <<HrefExample>>]>>,
     <<[order |-> Order, links |-> <<>>]>>,
     <<[order |-> Order, links |-> <<Empty, HrefExample>>]>>,
     <<[order |-> Order, links |-> <<HrefNoCID>>]>>,
     <<[order |-> Order, links |-> <<HrefFirstSegment>>]>>,
     <<[order |-> Order, links |-> <<HrefEmptyCID>>]>>}

DashAnswers ==
    {[err |-> TRUE, bodyOK |-> TRUE, doc |-> <<>>],
     [err |-> FALSE, bodyOK |-> FALSE, doc |-> <<>>]}
    \cup {[err |-> FALSE, bodyOK |-> TRUE, doc |-> d] : d \in Dashboards}
NoDash == [err |-> FALSE, bodyOK |-> TRUE, doc |-> <<>>]

\* record template rows
RowComplete == [type |-> Some(W("TXT")), prefix |-> Some(W("@")), value |-> Some(W("hello"))]
RowEmptyPrefix == [type |-> Some(W("TXT")), prefix |-> Some(Empty), value |-> Some(W("v2"))]
RowNoPrefix == [type |-> Some(W("SPF")), prefix |-> None, value |-> Some(W("v3"))]
RowNoValue == [type |-> Some(W("TXT")), prefix |-> Some(W("m")), value |-> None]
RowNoType == [type |-> None, prefix |-> Some(W("m")), value |-> Some(W("v5"))]
RowSamples == {RowComplete, RowEmptyPrefix, RowNoPrefix, RowNoValue, RowNoType}

Checked(name, v) == [name |-> name, checked |-> TRUE, value |-> v]
Unchecked(name, v) == [name |-> name, checked |-> FALSE, value |-> v]
GoodInputs == <<Unchecked("dmarc_type", W("unset")), Checked("dmarc_type", W("none")),
                Checked("dmarc_type", W("late")), Unchecked("spf_type", W("unset")),
                Checked("spf_type", W("default"))>>
EmptyPage == [form |-> FALSE, inputs |-> <<>>, rows |-> <<>>]

\* the documents the server may hold at the start
Pages ==
    {[form |-> TRUE, inputs |-> GoodInputs, rows |-> rs] : rs \in SeqsUpTo(RowSamples, MaxRows)}
    \cup {[form |-> FALSE, inputs |-> GoodInputs, rows |-> <<RowComplete>>],
          [form |-> TRUE, inputs |-> <<Unchecked("dmarc_type", W("none")),
                                       Checked("spf_type", W("default"))>>, rows |-> <<RowComplete>>],
          [form |-> TRUE, inputs |-> <<Checked("dmarc_type", Empty), Checked("dmarc_type", W("none")),
                                       Checked("spf_type", W("default"))>>, rows |-> <<RowComplete>>],
          [form |-> TRUE, inputs |-> <<Checked("dmarc_type", W("none"))>>, rows |-> <<RowComplete>>],
          [form |-> TRUE, inputs |-> <<Checked("dmarc_type", W("none")),
                                       Checked("spf_type", Empty)>>, rows |-> <<RowComplete>>]}

\* what the server answers to the GET of the records view
GetAnswers(doc) ==
    {[err |-> TRUE, status |-> 0, bodyOK |-> TRUE, doc |-> EmptyPage],
     [err |-> FALSE, status |-> StatusOK, bodyOK |-> FALSE, doc |-> EmptyPage]}
    \cup {[err |-> FALSE, status |-> st, bodyOK |-> TRUE, doc |-> doc] :
            st \in {StatusOK, 204, StatusFound, 500}}

\* what the server answers to the POST of the form
SetAnswers ==
    {[err |-> TRUE, status |-> 0, bodyOK |-> TRUE, doc |-> EmptyPage]}
    \cup {[err |-> FALSE, status |-> st, bodyOK |-> TRUE, doc |-> EmptyPage] :
            st \in {StatusFound, StatusOK, 500}}
NoAnswer == [err |-> FALSE, status |-> 0, bodyOK |-> TRUE, doc |-> EmptyPage]

\* records and configurations passed to SetDNSConfiguration
RecPlain == [Type |-> W("TXT"), Prefix |-> W("m"), Value |-> <<"v", "=", "spf1", " ", "a">>]
RecPlus == [Type |-> W("TXT"), Prefix |-> W("dkim"), Value |-> <<"p", "=", "a", "+", "b">>]
RecAmp == [Type |-> W("SPF"), Prefix |-> Empty, Value |-> <<"a", "&", "b">>]
RecordSamples == {RecPlain, RecPlus}
Configs ==
    {[DMARCType |-> W("none"), SPFType |-> W("default"), Records |-> rs] :
        rs \in SeqsUpTo(RecordSamples, MaxRecords)}
    \cup {[DMARCType |-> Empty, SPFType |-> W("default"), Records |-> <<RecPlain>>],
          [DMARCType |-> W("late"), SPFType |-> W("default"), Records |-> <<RecAmp, RecPlain>>],
          [DMARCType |-> W("none"), SPFType |-> <<"5", "0", "%">>, Records |-> <<>>]}

----------------------------------------------------------------------------
(* The state machine *)

Last(op, err, arg, config, login, dash, answer) ==
    [op |-> op, err |-> err, arg |-> arg, config |-> config,
     login |-> login, dash |-> dash, answer |-> answer]

\* main before the switch on the command
ZeroRecord == [Type |-> Empty, Prefix |-> Empty, Value |-> Empty]
Main(command, record, config, at, result) ==
    [command |-> command, record |-> record, config |-> config, at |-> at, result |-> result]
IdleMain == Main("", ZeroRecord, ZeroConfig, "idle", "")

Init ==
    /\ pc = "start"
    /\ client = NilClient
    /\ page \in Pages
    /\ last = Last("none", Nil, ZeroConfig, ZeroConfig, NoLogin, NoDash, NoAnswer)
    /\ reqs = <<>>
    /\ again = FALSE
    /\ main = IdleMain

\* The caller is a program that ends at the first error an operation returns, as
\* cmd/main.go does (klog.Fatalf): pc becomes "failed".

\* NewStratoClient, first step: the struct is built and authenticate runs; its
\* error is returned with a nil client (cookiejar.New(nil) returns no error)
Authenticate ==
    /\ pc = "start"
    /\ \E api \in Apis, x \in LoginAnswers :
       \E a \in {authenticate(NewStruct(api, Identifier, Password, Order, Domain), x)} :
         /\ client' = IF a.err = Nil THEN Ptr(a.c) ELSE NilClient
         /\ pc' = IF a.err = Nil THEN "authenticated" ELSE "failed"
         /\ reqs' = a.reqs
         /\ last' = Last("authenticate", a.err, ZeroConfig, ZeroConfig,
                         IF Len(a.reqs) >= 1 THEN x ELSE NoLogin, NoDash, NoAnswer)
    /\ UNCHANGED <<page, again, main>>

\* NewStratoClient, second step: populatePackageID runs; its error is returned
\* with a nil client, and the client is returned otherwise
PopulatePackageID ==
    /\ pc = "authenticated"
    /\ \E d \in DashAnswers :
       \E p \in {populatePackageID(client[1], d)} :
         /\ client' = IF p.err = Nil THEN Ptr(p.c) ELSE NilClient
         /\ pc' = IF p.err = Nil THEN "ready" ELSE "failed"
         /\ reqs' = reqs \o p.reqs
         /\ last' = [last EXCEPT !.op = "new", !.err = p.err,
                                 !.dash = IF Len(p.reqs) >= 1 THEN d ELSE NoDash]
    /\ UNCHANGED <<page, again, main>>

\* a read that drops the session token of the client when the read fails
GetDroppingSession ==
    /\ pc = "ready"
    /\ \E r \in GetAnswers(page) :
       \E g \in {GetDNSConfiguration(client[1], r)} :
         /\ pc' = IF g.err = Nil THEN "ready" ELSE "failed"
         /\ reqs' = g.reqs
         /\ last' = Last("get", g.err, ZeroConfig, g.config, NoLogin, NoDash,
                         IF Len(g.reqs) >= 1 THEN r ELSE NoAnswer)
         /\ again' = (g.err = Nil /\ last.op = "get" /\ last.err = Nil)
         /\ client' = IF g.err = Nil THEN client
                       ELSE Ptr([client[1] EXCEPT !.sessionID = Empty])
    /\ UNCHANGED <<page, main>>

\* a read whose request makes the server drop the last record it holds
GetConsuming ==
    /\ pc = "ready"
    /\ \E r \in GetAnswers(page) :
       \E g \in {GetDNSConfiguration(client[1], r)} :
         /\ pc' = IF g.err = Nil THEN "ready" ELSE "failed"
         /\ reqs' = g.reqs
         /\ last' = Last("get", g.err, ZeroConfig, g.config, NoLogin, NoDash,
                         IF Len(g.reqs) >= 1 THEN r ELSE NoAnswer)
         /\ again' = (g.err = Nil /\ last.op = "get" /\ last.err = Nil)
         /\ page' = IF Len(g.reqs) >= 1 /\ ~r.err /\ Len(page.rows) >= 1
                    THEN [page EXCEPT !.rows = SubSeq(page.rows, 1, Len(page.rows) - 1)]
                    ELSE page
    /\ UNCHANGED <<client, main>>

\* the program reads the configuration
Get ==
    /\ pc = "ready"
    /\ \E r \in GetAnswers(page) :
       \E g \in {GetDNSConfiguration(client[1], r)} :
         /\ pc' = IF g.err = Nil THEN "ready" ELSE "failed"
         /\ reqs' = g.reqs
         /\ last' = Last("get", g.err, ZeroConfig, g.config, NoLogin, NoDash,
                         IF Len(g.reqs) >= 1 THEN r ELSE NoAnswer)
         /\ again' = (g.err = Nil /\ last.op = "get" /\ last.err = Nil)
    /\ UNCHANGED <<client, page, main>>

\* the program writes a configuration; the server that answers 302 has stored it
Set ==
    /\ pc = "ready"
    /\ \E config \in Configs, r \in SetAnswers :
       \E s \in {SetDNSConfiguration(client[1], config, r)} :
         /\ pc' = IF s.err = Nil THEN "ready" ELSE "failed"
         /\ reqs' = s.reqs
         /\ last' = Last("set", s.err, config, ZeroConfig, NoLogin, NoDash,
                         IF Len(s.reqs) >= 1 THEN r ELSE NoAnswer)
         /\ page' = IF Len(s.reqs) >= 1 /\ ~r.err /\ r.status = StatusFound
                    THEN ServerApply(s.reqs[1].body) ELSE page
         /\ again' = FALSE
    /\ UNCHANGED <<client, main>>

Next == Authenticate \/ PopulatePackageID \/ Get \/ Set

Spec == Init /\ [][Next]_vars

----------------------------------------------------------------------------
(* cmd/main.go: the commands list, add and remove on a constructed client *)

\* a contains that compares the Type and the Prefix only
containsTypePrefix(records, record) ==
    \E i \in 1..Len(records) :
        records[i].Type = record.Type /\ records[i].Prefix = record.Prefix

\* contains: some entry has the Type, the Prefix and the Value of the record
contains(records, record) ==
    \E i \in 1..Len(records) :
        /\ records[i].Type = record.Type
        /\ records[i].Prefix = record.Prefix
        /\ records[i].Value = record.Value

\* remove: updatedRecords, the records that differ from the provided one in the
\* Type, the Prefix or the Value, in their order
UpdatedRecords(records, providedRecord) ==
    LET F[i \in 0..Len(records)] ==
            IF i = 0 THEN <<>>
            ELSE IF \/ records[i].Type # providedRecord.Type
                    \/ records[i].Prefix # providedRecord.Prefix
                    \/ records[i].Value # providedRecord.Value
                 THEN Append(F[i - 1], records[i])
                 ELSE F[i - 1]
    IN  F[Len(records)]

\* an add that puts the new record in front of the existing ones
PrependRecord(config, providedRecord) ==
    [config EXCEPT !.Records = <<providedRecord>> \o @]

\* add: config.Records = append(config.Records, providedRecord)
AppendRecord(config, providedRecord) ==
    [config EXCEPT !.Records = Append(@, providedRecord)]

\* the --type, --prefix and --value flags: a record the first sample row reads as,
\* one that differs from it in the Value only, one whose Value holds a "+", and
\* one without a prefix
RecHello == [Type |-> W("TXT"), Prefix |-> W("@"), Value |-> W("hello")]
RecOther == [Type |-> W("TXT"), Prefix |-> W("@"), Value |-> W("other")]
RecNoPrefixFlag == [Type |-> W("TXT"), Prefix |-> Empty, Value |-> W("v2")]
ProvidedRecords == {RecHello, RecOther, RecPlus, RecNoPrefixFlag}

\* the --command flag with the record flags; "purge" is no command
Commands ==
    {[command |-> "list", record |-> ZeroRecord], [command |-> "purge", record |-> ZeroRecord]}
    \cup {[command |-> c, record |-> r] : c \in {"add", "remove"}, r \in ProvidedRecords}

\* the flag checks of add and remove
FlagMissing(record) ==
    record.Type = Empty \/ record.Prefix = Empty \/ record.Value = Empty

\* the client main works with: NewStratoClient on an endpoint that answers the
\* login with a redirect carrying a session token and shows the order's link
CmdLogin == [getErr |-> FALSE, postErr |-> FALSE, status |-> StatusFound, location |-> LocExample]
CmdDash == [err |-> FALSE, bodyOK |-> TRUE, doc |-> <<[order |-> Order, links |-> <<HrefExample>>]>>]
NewStratoClient(api, identifier, password, order, domain) ==
    LET a == authenticate(NewStruct(api, identifier, password, order, domain), CmdLogin) IN
    IF a.err # Nil THEN [client |-> NilClient, err |-> a.err, reqs |-> a.reqs]
    ELSE LET p == populatePackageID(a.c, CmdDash) IN
         IF p.err # Nil THEN [client |-> NilClient, err |-> p.err, reqs |-> a.reqs \o p.reqs]
         ELSE [client |-> Ptr(p.c), err |-> Nil, reqs |-> a.reqs \o p.reqs]

InitCmd ==
    \E n \in {NewStratoClient(W("https://host/cs"), Identifier, Password, Order, Domain)} :
        /\ pc = "ready"
        /\ client = n.client
        /\ page \in Pages
        /\ last = Last("new", n.err, ZeroConfig, ZeroConfig, CmdLogin, CmdDash, NoAnswer)
        /\ reqs = n.reqs
        /\ again = FALSE
        /\ main = IdleMain

\* klog.Fatal / klog.Fatalf: the program ends
Fatal(m, result) == [m EXCEPT !.at = "fatal", !.result = result]
\* return from main
Return(m, result) == [m EXCEPT !.at = "done", !.result = result]

\* the switch on the command up to the first GetDNSConfiguration: an unknown
\* command and a missing record flag are fatal before any request; list prints
\* the configuration and returns; add and remove go on with it
CmdFetch ==
    /\ pc = "ready" /\ main.at = "idle"
    /\ \E cmd \in Commands :
       LET m == Main(cmd.command, cmd.record, ZeroConfig, "idle", "") IN
       IF cmd.command \notin {"list", "add", "remove"}
       THEN /\ main' = Fatal(m, "invalid command")
            /\ UNCHANGED <<pc, last, reqs>>
       ELSE IF cmd.command # "list" /\ FlagMissing(cmd.record)
       THEN /\ main' = Fatal(m, "flag required")
            /\ UNCHANGED <<pc, last, reqs>>
       ELSE \E r \in GetAnswers(page) :
            \E g \in {GetDNSConfiguration(client[1], r)} :
              /\ pc' = IF g.err = Nil THEN "ready" ELSE "failed"
              /\ reqs' = g.reqs
              /\ last' = Last("get", g.err, ZeroConfig, g.config, NoLogin, NoDash,
                              IF Len(g.reqs) >= 1 THEN r ELSE NoAnswer)
              /\ main' = IF g.err # Nil THEN Fatal(m, "fetch failed")
                         ELSE IF cmd.command = "list" THEN Return([m EXCEPT !.config = g.config], "listed")
                         ELSE [m EXCEPT !.config = g.config, !.at = "fetched"]
    /\ UNCHANGED <<client, page, again>>

\* add and remove after the first read: the decision to write, and the
\* SetDNSConfiguration.  The server that answers 302 has stored the form, or has
\* kept its document: the second read of main is there to tell
CmdUpdate ==
    /\ pc = "ready" /\ main.at = "fetched"
    /\ LET config == IF main.command = "add"
                     THEN AppendRecord(main.config, main.record)
                     ELSE [main.config EXCEPT
                              !.Records = UpdatedRecords(main.config.Records, main.record)]
       IN
       IF main.command = "add" /\ contains(main.config.Records, main.record)
       THEN /\ main' = Return(main, "exists")
            /\ UNCHANGED <<pc, last, reqs, page>>
       ELSE IF main.command = "remove" /\ Len(config.Records) = Len(main.config.Records)
       THEN /\ main' = Return(main, "not found")
            /\ UNCHANGED <<pc, last, reqs, page>>
       ELSE \E r \in SetAnswers, stored \in BOOLEAN :
            \E s \in {SetDNSConfiguration(client[1], config, r)} :
              /\ pc' = IF s.err = Nil THEN "ready" ELSE "failed"
              /\ reqs' = s.reqs
              /\ last' = Last("set", s.err, config, ZeroConfig, NoLogin, NoDash,
                              IF Len(s.reqs) >= 1 THEN r ELSE NoAnswer)
              /\ page' = IF Len(s.reqs) >= 1 /\ ~r.err /\ r.status = StatusFound /\ stored
                         THEN ServerApply(s.reqs[1].body) ELSE page
              /\ main' = IF s.err # Nil THEN Fatal(main, "update failed")
                         ELSE [main EXCEPT !.at = "written"]
    /\ UNCHANGED <<client, again>>

\* an add and remove that report success without reading the configuration again
CmdTrustingWrite ==
    /\ pc = "ready" /\ main.at = "written"
    /\ main' = Return(main, IF main.command = "add" THEN "added" ELSE "removed")
    /\ UNCHANGED <<pc, client, page, last, reqs, again>>

\* add and remove after the write: the second GetDNSConfiguration and the check
\* that the configuration read shows the change
CmdVerify ==
    /\ pc = "ready" /\ main.at = "written"
    /\ \E r \in GetAnswers(page) :
       \E g \in {GetDNSConfiguration(client[1], r)} :
         /\ pc' = IF g.err = Nil THEN "ready" ELSE "failed"
         /\ reqs' = g.reqs
         /\ last' = Last("get", g.err, ZeroConfig, g.config, NoLogin, NoDash,
                         IF Len(g.reqs) >= 1 THEN r ELSE NoAnswer)
         /\ main' = IF g.err # Nil THEN Fatal(main, "refetch failed")
                    ELSE IF main.command = "add" /\ ~contains(g.config.Records, main.record)
                    THEN Fatal(main, "failed to add")
                    ELSE IF main.command = "remove" /\ contains(g.config.Records, main.record)
                    THEN Fatal(main, "failed to remove")
                    ELSE Return(main, IF main.command = "add" THEN "added" ELSE "removed")
    /\ UNCHANGED <<client, page, again>>

NextCmd == CmdFetch \/ CmdUpdate \/ CmdVerify

SpecCmd == InitCmd /\ [][NextCmd]_vars

----------------------------------------------------------------------------
(* Construction *)

\* NewStratoClient has returned
NewReturned == last.op \in {"authenticate", "new"} /\ pc \in {"ready", "failed"}

\* the login failed: a transport error, a status other than 302, or a redirect
\* whose Location is no URL or has no sessionID parameter
LoginFailed ==
    LET x == last.login IN
    \/ x.getErr \/ x.postErr \/ x.status # StatusFound
    \/ ~UrlParse(x.location).ok
    \/ ValuesGet(ParseQuery(UrlParse(x.location).RawQuery), W("sessionID")) = Empty

\* the href of the first link of the first container of the order, as a set of
\* at most one element
OrderLink(doc) ==
    {doc[i].links[1] : i \in {j \in 1..Len(doc) :
        /\ doc[j].order = Order /\ doc[j].links # <<>>
        /\ \A k \in 1..(j - 1) : doc[k].order # Order}}

\* the resolution failed: a transport error on the dashboard GET, or the order
\* container, its link, the link's href or the href's cID segment is missing
ResolveFailed ==
    LET d == last.dash IN
    \/ d.err \/ ~d.bodyOK
    \/ OrderLink(d.doc) = {}
    \/ \E link \in OrderLink(d.doc) :
          link = Empty \/ \A part \in Range(Split(link, "&")) : ~HasPrefix(part, <<"cID", "=">>)

\* C1: whenever NewStratoClient has returned after a failure of the login or of
\* the identifier resolution, it has returned a non-nil error and no client.
C1_FailureGivesErrorAndNoClient ==
    (NewReturned /\ (LoginFailed \/ (last.op = "new" /\ Len(reqs) = 3 /\ ResolveFailed)))
        => (last.err # Nil /\ client = NilClient)

\* C2: a client on which GetDNSConfiguration and SetDNSConfiguration can be
\* invoked has a non-empty sessionID and a non-empty cID.
C2_ReadyClientIsResolved ==
    pc = "ready" => (client[1].sessionID # Empty /\ client[1].cID # Empty)

\* C3: authenticate succeeds exactly when the login POST is answered 302 with a
\* Location whose sessionID query parameter is non-empty, and then the session
\* token is that parameter's value (abc123 for /x?sessionID=abc123&foo=bar); a 302
\* without the parameter, a 200 and any other status each give their error.
C3_AuthClassification ==
    last.op = "authenticate" =>
        LET x == last.login
            answered == Len(reqs) >= 2 /\ ~x.postErr
            u == UrlParse(x.location)
            sid == ValuesGet(ParseQuery(u.RawQuery), <<"sessionID">>)
            good == answered /\ x.status = 302 /\ u.ok /\ sid # Empty
        IN  /\ (pc = "authenticated") = good
            /\ (last.err = Nil) = good
            /\ good => client[1].sessionID = sid
            /\ (good /\ x.location = LocExample) => client[1].sessionID = <<"abc123">>
            /\ (answered /\ x.status = 302 /\ u.ok /\ sid = Empty)
                 => last.err = "sessionID not found in redirect URL"
            /\ (answered /\ x.status = 200) => last.err = "authentication failed"
            /\ (answered /\ x.status \notin {302, 200}) => last.err = "unexpected response status"

\* the login redirect of the example was classified and its token stored
C3_Witness ==
    /\ pc = "authenticated" /\ last.login.location = LocExample
    /\ client[1].sessionID = <<"abc123">>

\* C10: when the dashboard was fetched and parsed, populatePackageID fails with an
\* error and no client in each of the four cases (no container for the order, no
\* link in it, a link with an empty href, an href without a cID segment), and a
\* success stores the value of the first cID segment of the href of the first link
\* of the first container of the order ("987" for "...&cID=987&...").
C10_CustomerIdResolution ==
    (last.op = "new" /\ Len(reqs) = 3 /\ ~last.dash.err /\ last.dash.bodyOK) =>
        LET doc == last.dash.doc
            cidKey == <<"cID", "=">>
        IN  /\ ResolveFailed => (pc = "failed" /\ last.err # Nil /\ client = NilClient)
            /\ pc = "ready" =>
                 \E link \in OrderLink(doc) :
                    LET parts == Split(link, "&") IN
                    \E k \in 1..Len(parts) :
                       /\ HasPrefix(parts[k], cidKey)
                       /\ \A j \in 1..(k - 1) : ~HasPrefix(parts[j], cidKey)
                       /\ client[1].cID = SubSeq(parts[k], 3, Len(parts[k]))
            /\ (pc = "ready" /\ OrderLink(doc) = {HrefExample}) => client[1].cID = <<"987">>

\* the customer id of the example was resolved
C10_Witness ==
    /\ pc = "ready" /\ last.op = "new" /\ OrderLink(last.dash.doc) = {HrefExample}
    /\ client[1].cID = <<"987">>

----------------------------------------------------------------------------
(* The writer's answer *)

\* C4: SetDNSConfiguration returns nil exactly when its POST is answered 302, and
\* then it has sent that one request only (the redirect is not followed); a 200
\* gives the error "update failed" and any other status its own error.
C4_WriteClassification ==
    last.op = "set" =>
        LET r == last.answer
            answered == Len(reqs) >= 1 /\ ~r.err
        IN  /\ (last.err = Nil) = (answered /\ r.status = 302)
            /\ last.err = Nil => (Len(reqs) = 1 /\ reqs[1].method = "POST")
            /\ (answered /\ r.status = 200) => last.err = "update failed"
            /\ (answered /\ r.status \notin {302, 200}) => last.err = "unexpected response status"

\* a write was answered 302 and returned nil
C4_Witness ==
    /\ last.op = "set" /\ last.err = Nil
    /\ Len(reqs) = 1 /\ last.answer.status = 302


\* C5: when a successful SetDNSConfiguration(C) is followed by a successful
\* GetDNSConfiguration, the configuration read has C's DMARCType, C's SPFType and
\* C's set of records.
C5_RoundTrip ==
    [][(last.op = "set" /\ last.err = Nil /\ last'.op = "get" /\ last'.err = Nil)
         => /\ last'.config.DMARCType = last.arg.DMARCType
            /\ last'.config.SPFType = last.arg.SPFType
            /\ Range(last'.config.Records) = Range(last.arg.Records)]_vars

\* C6: the posted body is the fields sessionID, cID, node, vhost, dmarc_type,
\* spf_type, then type, prefix, value of the 1st record, of the 2nd record, ...,
\* then the submit marker, joined by "&": 7 + 3 x len(Records) fields.
C6_BodyFieldSequence ==
    (last.op = "set" /\ Len(reqs) >= 1) =>
        LET c == client[1]
            cfg == last.arg
            n == Len(cfg.Records)
            field(i) ==
                CASE i = 1 -> <<"sessionID", "=">> \o c.sessionID
                  [] i = 2 -> <<"cID", "=", "1">>
                  [] i = 3 -> <<"node", "=", "ManageDomains">>
                  [] i = 4 -> <<"vhost", "=">> \o c.domain
                  [] i = 5 -> <<"dmarc_type", "=">> \o cfg.DMARCType
                  [] i = 6 -> <<"spf_type", "=">> \o cfg.SPFType
                  [] i = 7 + 3 * n ->
                        <<"action_change_txt_records", "=", "Einstellung", " ", "uebernehmen">>
                  [] OTHER ->
                        LET rec == cfg.Records[((i - 7) \div 3) + 1] IN
                        CASE (i - 7) % 3 = 0 -> <<"type", "=">> \o rec.Type
                          [] (i - 7) % 3 = 1 -> <<"prefix", "=">> \o rec.Prefix
                          [] OTHER -> <<"value", "=">> \o rec.Value
        IN  reqs[1].body = Join([i \in 1..(7 + 3 * n) |-> field(i)], <<"&">>)

\* a body with two different records was posted
C6_Witness ==
    /\ last.op = "set" /\ Len(reqs) = 1
    /\ last.arg.Records = <<RecPlus, RecPlain>>

\* the text after "key=" in the first "&"-separated segment of q that starts with
\* "key=", as a set of at most one element
RawParam(q, key) ==
    LET segs == Split(q, "&") IN
    {SubSeq(segs[i], 3, Len(segs[i])) : i \in {j \in 1..Len(segs) :
        /\ HasPrefix(segs[j], <<key, "=">>)
        /\ \A k \in 1..(j - 1) : ~HasPrefix(segs[k], <<key, "=">>)}}
UrlParam(url, key) == RawParam(CutAfter(url, "?"), key)
BodyParam(body, key) == RawParam(body, key)

\* C7: the cID field of every posted body is the literal 1, and the cID query
\* parameter of the write URL and of the read URL is the client's resolved cID.
C7_CustomerIdAsymmetry ==
    /\ (last.op = "set" /\ Len(reqs) >= 1) =>
          /\ BodyParam(reqs[1].body, "cID") = {<<"1">>}
          /\ UrlParam(reqs[1].url, "cID") = {client[1].cID}
    /\ (last.op = "get" /\ Len(reqs) >= 1) =>
          UrlParam(reqs[1].url, "cID") = {client[1].cID}

\* a write was sent by a client whose resolved customer id is 987
C7_Witness ==
    /\ last.op = "set" /\ Len(reqs) = 1 /\ client[1].cID = <<"987">>
    /\ BodyParam(reqs[1].body, "cID") = {<<"1">>}

----------------------------------------------------------------------------
(* The reader's result *)

\* the document has a checked input of the name, and the first one has a value
HasSelection(doc, name) ==
    \E i \in 1..Len(doc.inputs) :
        /\ doc.inputs[i].name = name /\ doc.inputs[i].checked /\ doc.inputs[i].value # Empty
        /\ \A j \in 1..(i - 1) : ~(doc.inputs[j].name = name /\ doc.inputs[j].checked)

\* C8: GetDNSConfiguration returns a nil error only if the response was a 200
\* whose body was read, the form is present and a checked dmarc_type and a checked
\* spf_type input with a value exist; its DMARCType and SPFType are then non-empty;
\* another status, a missing form or a missing or empty selection gives an error.
C8_ReadRequiresFormAndSelections ==
    last.op = "get" =>
        LET r == last.answer
            fetched == Len(reqs) >= 1 /\ ~r.err /\ r.status = 200 /\ r.bodyOK
        IN  /\ last.err = Nil =>
                 /\ fetched /\ r.doc.form
                 /\ HasSelection(r.doc, "dmarc_type") /\ HasSelection(r.doc, "spf_type")
                 /\ last.config.DMARCType # Empty /\ last.config.SPFType # Empty
            /\ (~fetched \/ ~r.doc.form \/ ~HasSelection(r.doc, "dmarc_type")
                  \/ ~HasSelection(r.doc, "spf_type")) => last.err # Nil

\* a read succeeded on a page that has unchecked and checked inputs
C8_Witness ==
    /\ last.op = "get" /\ last.err = Nil
    /\ last.answer.doc.inputs = GoodInputs /\ last.config.DMARCType = <<"none">>

\* C9: the Records of a successful read are the rows that have a selected type
\* option and a value textarea, in document order, the Prefix of a row without
\* prefix input being ""; incomplete rows and an empty row list cause no error.
C9_RowsToRecords ==
    last.op = "get" =>
        LET r == last.answer
            rows == r.doc.rows
            recs == last.config.Records
            kept == {i \in 1..Len(rows) : rows[i].type # None /\ rows[i].value # None}
        IN  /\ last.err = Nil =>
                 /\ Len(recs) = Cardinality(kept)
                 /\ \E f \in [1..Len(recs) -> 1..Len(rows)] :
                       /\ {f[k] : k \in 1..Len(recs)} = kept
                       /\ \A k \in 1..Len(recs) : \A m \in 1..Len(recs) : k < m => f[k] < f[m]
                       /\ \A k \in 1..Len(recs) :
                             /\ recs[k].Type = rows[f[k]].type[1]
                             /\ recs[k].Value = rows[f[k]].value[1]
                             /\ recs[k].Prefix = IF rows[f[k]].prefix = None THEN Empty
                                                 ELSE rows[f[k]].prefix[1]
            /\ (Len(reqs) >= 1 /\ ~r.err /\ r.status = 200 /\ r.bodyOK /\ r.doc.form
                  /\ HasSelection(r.doc, "dmarc_type") /\ HasSelection(r.doc, "spf_type"))
                 => last.err = Nil

\* a read skipped a row without value textarea and kept a row without prefix input
C9_Witness ==
    /\ last.op = "get" /\ last.err = Nil
    /\ last.answer.doc.rows = <<RowNoValue, RowNoPrefix>>
    /\ last.config.Records = <<[Type |-> <<"SPF">>, Prefix |-> <<>>, Value |-> <<"v3">>]>>

\* a read of a form without rows succeeded with no records
C9_WitnessNoRows ==
    /\ last.op = "get" /\ last.err = Nil
    /\ last.answer.doc.rows = <<>> /\ last.config.Records = <<>>

----------------------------------------------------------------------------
(* The requests *)

\* C11, as stated: every public operation that has returned has sent exactly
\* one HTTP request.
C11_ExactlyOneRequest ==
    (NewReturned \/ last.op \in {"get", "set"}) => Len(reqs) = 1

\* a string of the client holds a control byte, which http.NewRequest rejects
HasControlByte(c) == CTL \in (Range(c.api) \cup Range(c.sessionID) \cup Range(c.cID) \cup Range(c.domain))

\* C11, amended: GetDNSConfiguration and SetDNSConfiguration send exactly one
\* request per invocation on every path, except that they send none and return an
\* error when the request URL holds a control byte; NewStratoClient sends at most
\* three requests, and exactly three whenever it has resolved the customer id.
C11_RequestCounts ==
    /\ last.op \in {"get", "set"} =>
          /\ Len(reqs) = IF HasControlByte(client[1]) THEN 0 ELSE 1
          /\ Len(reqs) = 0 => last.err # Nil
    /\ NewReturned =>
          /\ Len(reqs) <= 3
          /\ (pc = "ready" /\ client[1].cID # Empty) => Len(reqs) = 3

\* a construction that resolved the customer id has sent three requests
C11_Witness ==
    /\ last.op = "new" /\ pc = "ready" /\ client[1].cID # Empty /\ Len(reqs) = 3

\* a write that failed has sent its one request
C11_WitnessWrite ==
    /\ last.op = "set" /\ last.err # Nil /\ Len(reqs) = 1


\* the query parameters a server reads from a request URL
QueryOf(url) == ParseQuery(UrlParse(url).RawQuery)
HasParam(url, key) == \E i \in 1..Len(QueryOf(url)) : QueryOf(url)[i].key = <<key>>

\* C12: the dashboard GET, every configuration GET and every configuration POST
\* carries a sessionID and a cID query parameter, and the sessionID parameter is
\* the token extracted from the login redirect.
C12_RequestsCarrySessionAndCID ==
    /\ (last.op = "new" /\ Len(reqs) = 3) =>
          /\ HasParam(reqs[3].url, "sessionID") /\ HasParam(reqs[3].url, "cID")
          /\ ValuesGet(QueryOf(reqs[3].url), <<"sessionID">>)
                = ValuesGet(QueryOf(last.login.location), <<"sessionID">>)
    /\ (last.op \in {"get", "set"} /\ Len(reqs) >= 1) =>
          /\ HasParam(reqs[1].url, "sessionID") /\ HasParam(reqs[1].url, "cID")
          /\ ValuesGet(QueryOf(reqs[1].url), <<"sessionID">>) = client[1].sessionID

\* C13: once NewStratoClient has returned a client, no GetDNSConfiguration or
\* SetDNSConfiguration call, successful or failed, changes the client's api,
\* order, domain, sessionID or cID.
C13_ClientImmutable ==
    [][pc = "ready" =>
          /\ client' = client
          /\ client'[1].sessionID = client[1].sessionID
          /\ client'[1].cID = client[1].cID]_vars

\* a call has failed and the constructed client still holds its token and its id
C13_Witness ==
    /\ last.op \in {"get", "set"} /\ last.err # Nil
    /\ client # NilClient /\ client[1].sessionID = W("abc123") /\ client[1].cID = W("987")

C15_ConstructionRequestOrder ==
    last.op \in {"authenticate", "new"} =>
        /\ Len(reqs) <= 3
        /\ Len(reqs) >= 1 =>
              /\ reqs[1] = Req("GET", reqs[1].url, Empty) /\ reqs[1].url \in Apis
        /\ Len(reqs) >= 2 =>
              /\ reqs[2].method = "POST" /\ reqs[2].url = reqs[1].url
              /\ ~last.login.getErr
        /\ Len(reqs) = 3 =>
              /\ reqs[3].method = "GET" /\ reqs[3].body = Empty
              /\ HasPrefix(reqs[3].url, reqs[1].url \o W("?"))
              /\ <<"cID", "=", "0">> \in Range(Split(reqs[3].url, "&"))
              /\ ~LoginFailed
              /\ last.op = "new"
        /\ (Len(reqs) >= 1 /\ last.login.getErr) => Len(reqs) = 1
        /\ (Len(reqs) >= 1 /\ LoginFailed) => Len(reqs) <= 2
        /\ last.op = "authenticate" => Len(reqs) <= 2

\* the construction has sent its three requests
C15_Witness ==
    /\ last.op = "new" /\ Len(reqs) = 3 /\ last.dash.err

\* the preliminary GET failed and nothing followed it
C15_WitnessStopped ==
    /\ last.op = "authenticate" /\ last.login.getErr /\ Len(reqs) = 1

----------------------------------------------------------------------------
(* The commands *)

\* the record of the command is in the configuration the command fetched
Present ==
    \E i \in 1..Len(main.config.Records) :
        /\ main.config.Records[i].Type = main.record.Type
        /\ main.config.Records[i].Prefix = main.record.Prefix
        /\ main.config.Records[i].Value = main.record.Value

\* add or remove has taken its decision: it has called SetDNSConfiguration, or
\* it has returned without
Decided ==
    /\ main.command \in {"add", "remove"}
    /\ \/ main.at = "written"
       \/ main.at = "fatal" /\ main.result = "update failed"
       \/ main.at = "done" /\ main.result \in {"exists", "not found"}

\* C16: add calls SetDNSConfiguration exactly when no fetched record has the
\* Type, the Prefix and the Value of the provided record, remove exactly when
\* some fetched record has all three; otherwise the command sends no POST.
C16_WriteDecision ==
    Decided =>
        /\ main.command = "add" => (last.op = "set" <=> ~Present)
        /\ main.command = "remove" => (last.op = "set" <=> Present)
        /\ last.op # "set" =>
              /\ last.op = "get"
              /\ \A i \in 1..Len(reqs) : reqs[i].method = "GET"
        /\ last.op = "set" => (Len(reqs) = 1 /\ reqs[1].method = "POST")

\* add has written a record of which the fetched configuration holds the Type
\* and the Prefix with another Value
C16_Witness ==
    /\ main.command = "add" /\ main.at = "written" /\ last.op = "set"
    /\ \E i \in 1..Len(main.config.Records) :
          /\ main.config.Records[i].Type = main.record.Type
          /\ main.config.Records[i].Prefix = main.record.Prefix
          /\ main.config.Records[i].Value # main.record.Value

\* remove has found no identical record and returned without a write
C16_WitnessNotFound ==
    /\ main.command = "remove" /\ main.result = "not found" /\ last.op = "get"
    /\ Len(main.config.Records) >= 1

\* C17: after a successful SetDNSConfiguration the only step of add and remove
\* is one GetDNSConfiguration; the command reports success only when that read
\* succeeded and shows the record (add) or no identical record (remove); a
\* failed write, a failed second read and a failed verification are fatal, and
\* a command that has ended takes no further step.
C17_WriteThenVerify ==
    [][/\ main.at = "written" =>
             /\ last'.op = "get" /\ Len(reqs') = 1 /\ reqs'[1].method = "GET"
             /\ main'.at \in {"done", "fatal"}
             /\ last'.err # Nil => main'.at = "fatal"
       /\ (main'.at = "done" /\ main'.result = "added") =>
             /\ main.at = "written" /\ last'.op = "get" /\ last'.err = Nil
             /\ \E i \in 1..Len(last'.config.Records) : last'.config.Records[i] = main'.record
       /\ (main'.at = "done" /\ main'.result = "removed") =>
             /\ main.at = "written" /\ last'.op = "get" /\ last'.err = Nil
             /\ \A i \in 1..Len(last'.config.Records) : last'.config.Records[i] # main'.record
       /\ (main.at = "written" /\ last'.err = Nil) =>
             (main'.at = "done" <=>
                 IF main.command = "add"
                 THEN \E i \in 1..Len(last'.config.Records) : last'.config.Records[i] = main.record
                 ELSE \A i \in 1..Len(last'.config.Records) : last'.config.Records[i] # main.record)
       /\ (main.at = "fetched" /\ last'.op = "set") =>
             /\ last'.err # Nil => main'.at = "fatal"
             /\ last'.err = Nil => main'.at = "written"
       /\ main.at \notin {"fatal", "done"}]_vars

\* remove has written, has read again and has found the record still there
C17_Witness ==
    /\ main.command = "remove" /\ main.at = "fatal" /\ main.result = "failed to remove"
    /\ last.op = "get" /\ last.err = Nil

\* add has written, has read again and has found the record
C17_WitnessAdded ==
    /\ main.command = "add" /\ main.at = "done" /\ main.result = "added"
    /\ last.op = "get" /\ last.err = Nil

\* C18: the configuration add or remove passes to SetDNSConfiguration has the
\* DMARCType and the SPFType that were read; add's records are the records read
\* followed by the new record, remove's records are the records read without
\* every record identical to the target, in their order.
C18_OnlyTargetChanges ==
    (main.command \in {"add", "remove"} /\ last.op = "set") =>
        /\ last.arg.DMARCType = main.config.DMARCType
        /\ last.arg.SPFType = main.config.SPFType
        /\ main.command = "add" =>
              /\ Len(last.arg.Records) = Len(main.config.Records) + 1
              /\ SubSeq(last.arg.Records, 1, Len(main.config.Records)) = main.config.Records
              /\ last.arg.Records[Len(last.arg.Records)] = main.record
        /\ main.command = "remove" =>
              LET Other(r) == r # main.record IN
              /\ last.arg.Records = SelectSeq(main.config.Records, Other)
              /\ \A i \in 1..Len(last.arg.Records) : last.arg.Records[i] # main.record

\* add has appended to a configuration that held records
C18_Witness ==
    /\ main.command = "add" /\ last.op = "set" /\ Len(main.config.Records) >= 1
    /\ main.config.DMARCType # Empty

\* remove has dropped two identical records
C18_WitnessRemoveAll ==
    /\ main.command = "remove" /\ last.op = "set"
    /\ Len(main.config.Records) >= Len(last.arg.Records) + 2
====
